---------------------------- MODULE Spec2Model ----------------------------
(***************************************************************************)
(* The training notebook "Part 3 - Training Neural Networks.ipynb" as a    *)
(* state machine: the single demonstration step (cell 22), the new         *)
(* optimizer (cell 25), the training loop (cell 26) and the inference cell *)
(* (cell 28), one action per statement.                                    *)
(*                                                                         *)
(* Numbers.  Tensors hold floats; a float is modelled as a record that is  *)
(* either a number in fixed point (thousandths, rounded down after every   *)
(* product), an exact decimal (the worked example of cells 0 and 1), the   *)
(* non-finite value NaN (nan and +-inf are not told apart), or None (a     *)
(* .grad that was never populated).                                        *)
(*                                                                         *)
(* Model.  The network of cell 18 and the cross-entropy criterion of cell  *)
(* 20 are abstracted to the smallest differentiable model with the same    *)
(* interface: output = w*x + b with the parameters w and b, and the mean   *)
(* squared loss the notebook defines in cell 0.  A batch is summarised by  *)
(* its length, its number of features per example, whether it is already   *)
(* flattened, and one (x, y) pair shared by all its examples.              *)
(*                                                                         *)
(* Specifications.  Spec and FairSpec run the notebook from cell 22 on.    *)
(* ScenarioSpec runs the loop of cell 26 on the worked example of cells 0  *)
(* and 1 in exact decimals.  PairSpec runs the loop twice, the second time *)
(* with another print_every on the tensors of the first run.               *)
(***************************************************************************)
EXTENDS Integers, Sequences, FiniteSets, TLC

VARIABLES
    pc,            \* the statement the notebook executes next
    params,        \* Parameter Set: model.parameters(), name -> float
    grad,          \* Gradient Set: p.grad of every parameter (None before any backward)
    lr,            \* the learning rate of the current optimizer, in thousandths
    N,             \* len(trainset)
    remaining,     \* examples the current iter(trainloader) has not yet yielded
    images,        \* the tensor bound to `images`
    labels,        \* the tensor bound to `labels`
    output,        \* output of model.forward
    logits,        \* logits of cell 28
    loss,          \* loss of criterion
    epochs, print_every, steps, e, running_loss,   \* the loop's variables (cell 26)
    reports,       \* the lines printed by the loop: epoch, value = num/den
    drawn,         \* history: the batch as the loader yielded it to the last step
    fwdParams,     \* the parameter values the last tracked Forward saved in its graph
    gradFrom,      \* history: the Parameter Set the Gradient Set was computed for
    phases,        \* history: the phases the current step has executed, in order
    lossLog,       \* history: the loss of every step of the loop, in order
    startParams,   \* history: the Parameter Set when the loop began
    count,         \* history: how often the loop has executed each phase
    ref            \* history: the run before this one, when the loop is run twice

vars == <<pc, params, grad, lr, N, remaining, images, labels, output, logits, loss,
          epochs, print_every, steps, e, running_loss, reports,
          drawn, fwdParams, gradFrom, phases, lossLog, startParams, count, ref>>

loopVars == <<epochs, print_every, steps, e, running_loss, reports>>
histVars == <<drawn, gradFrom, phases, lossLog, startParams, count, ref>>

---------------------------------------------------------------------------
(* Bounds of the model *)

MaxEpochs     == 2      \* epochs is drawn from 0..MaxEpochs       (notebook: 3)
MaxPrintEvery == 2      \* print_every from 1..MaxPrintEvery       (notebook: 40)
BatchSize     == 2      \* batch_size of the DataLoader            (notebook: 64)
MaxExtra      == 2      \* len(trainset) is drawn from BatchSize .. BatchSize + MaxExtra

(* Program constants *)

input_size == 784       \* cell 18
LrCell20   == 10        \* lr=0.01  (thousandths)
LrCell25   == 3         \* lr=0.003 (thousandths)
Scale      == 1000      \* fixed-point unit: three decimals, as the learning rates

ParamNames == {"w", "b"}

---------------------------------------------------------------------------
(* Floats *)

Num(v) == [k |-> "num", v |-> v]
NaN    == [k |-> "nan", v |-> 0]
None   == [k |-> "none", v |-> 0]

IsNum(a) == a.k = "num"

Min(a, b) == IF a < b THEN a ELSE b
Max(a, b) == IF a < b THEN b ELSE a
Abs(n)    == IF n < 0 THEN -n ELSE n

(* Exact decimals.  The worked example of cells 0 and 1 is followed over    *)
(* many steps, where three decimals are not enough: there a float is an     *)
(* exact decimal, the sign, the decimal digits of the magnitude (lowest     *)
(* first, no zero at either end while a fractional place is left) and the   *)
(* number of fractional places.  Nothing is rounded.                        *)
Dec(neg, m, f) == [k |-> "dec", neg |-> neg, m |-> m, f |-> f]

IsDec(a)  == a.k = "dec"
Finite(a) == IsNum(a) \/ IsDec(a)

RECURSIVE Digits(_)
Digits(n) == IF n = 0 THEN <<>> ELSE <<n % 10>> \o Digits(n \div 10)

\* The three decimals of the fixed point unit.
Places == Len(Digits(Scale)) - 1

Coef(c, i) == IF i \in 1..Len(c) THEN c[i] ELSE 0

NonZero(c) == {i \in 1..Len(c) : c[i] # 0}
Top(c) == IF NonZero(c) = {} THEN 0 ELSE CHOOSE i \in NonZero(c) : \A j \in NonZero(c) : j <= i
Low(c) == IF NonZero(c) = {} THEN 0 ELSE CHOOSE i \in NonZero(c) : \A j \in NonZero(c) : i <= j

RECURSIVE Carry(_, _, _)
Carry(c, i, carry) ==
    IF i > Len(c) THEN Digits(carry)
    ELSE <<(c[i] + carry) % 10>> \o Carry(c, i + 1, (c[i] + carry) \div 10)

\* The decimal whose value is the sum of c[i] * 10^(i-1-f), for coefficients
\* c[i] of either sign.
Canon(c, f) ==
    IF Top(c) = 0 THEN Dec(FALSE, <<>>, 0)
    ELSE LET neg  == c[Top(c)] < 0
             mag  == Carry([i \in 1..Len(c) |-> IF neg THEN -c[i] ELSE c[i]], 1, 0)
             drop == Min(Low(mag) - 1, f)
         IN  Dec(neg, SubSeq(mag, drop + 1, Top(mag)), f - drop)

Signed(d) == [i \in 1..Len(d.m) |-> IF d.neg THEN -d.m[i] ELSE d.m[i]]

\* The exact decimal of a finite float.
ToDec(a) ==
    IF IsDec(a) THEN a
    ELSE Canon([i \in 1..Len(Digits(Abs(a.v))) |->
                   IF a.v < 0 THEN -Digits(Abs(a.v))[i] ELSE Digits(Abs(a.v))[i]], Places)

Exact(a) == IF IsNum(a) THEN ToDec(a) ELSE a

\* a + sgn * b.
DecAdd(a, b, sgn) ==
    LET f == Max(a.f, b.f)
        n == Max(Len(a.m) + f - a.f, Len(b.m) + f - b.f)
    IN  Canon([i \in 1..n |-> Coef(Signed(a), i - (f - a.f))
                              + sgn * Coef(Signed(b), i - (f - b.f))], f)

RECURSIVE Conv(_, _, _, _)
Conv(a, b, k, i) ==
    IF i > Min(Len(a), k) THEN 0
    ELSE a[i] * b[k + 1 - i] + Conv(a, b, k, i + 1)

DecMul(a, b) ==
    IF a.m = <<>> \/ b.m = <<>> THEN Dec(FALSE, <<>>, 0)
    ELSE Canon([k \in 1..(Len(a.m) + Len(b.m) - 1) |->
                   (IF a.neg = b.neg THEN 1 ELSE -1)
                   * Conv(a.m, b.m, k, Max(1, k + 1 - Len(b.m)))], a.f + b.f)

(* Arithmetic: fixed point on fixed point numbers, exact as soon as one     *)
(* operand is an exact decimal, NaN as soon as one operand is not finite.   *)
Add(a, b) == IF IsNum(a) /\ IsNum(b) THEN Num(a.v + b.v)
             ELSE IF Finite(a) /\ Finite(b) THEN DecAdd(ToDec(a), ToDec(b), 1) ELSE NaN
Sub(a, b) == IF IsNum(a) /\ IsNum(b) THEN Num(a.v - b.v)
             ELSE IF Finite(a) /\ Finite(b) THEN DecAdd(ToDec(a), ToDec(b), -1) ELSE NaN
Mul(a, b) == IF IsNum(a) /\ IsNum(b) THEN Num((a.v * b.v) \div Scale)
             ELSE IF Finite(a) /\ Finite(b) THEN DecMul(ToDec(a), ToDec(b)) ELSE NaN
Half(a)   == IF IsNum(a) THEN Num(a.v \div 2)
             ELSE IF IsDec(a) THEN DecMul(a, ToDec(Num(Scale \div 2))) ELSE NaN

\* a < b on finite floats.
Less(a, b) == IF IsNum(a) /\ IsNum(b) THEN a.v < b.v
              ELSE Finite(a) /\ Finite(b) /\ DecAdd(ToDec(a), ToDec(b), -1).neg

(* Data the Dataset Source can hold: pixel values, labels, feature counts.  *)
(* A non-finite pixel stands for a corrupt example.                         *)
PixelValues   == {Num(500), NaN}
LabelValues   == {Num(0), Num(1000)}
FeatureCounts == {input_size - 1, input_size, input_size + 1}
InitWeights   == {Num(2000), Num(-1000)}
DatasetSizes  == BatchSize .. (BatchSize + MaxExtra)

NoTensor == [n |-> 0, feat |-> 0, flat |-> FALSE, x |-> None]
NoLabels == [n |-> 0, y |-> None]
NoBatch  == [n |-> 0, feat |-> 0, flat |-> FALSE, x |-> None, y |-> None]
NoOutput == [n |-> 0, v |-> None]
NoParams == [p \in ParamNames |-> None]
NoRef    == [run |-> 1, grad0 |-> NoParams, log |-> <<>>, print_every |-> 0, reports |-> <<>>]

---------------------------------------------------------------------------
(* The library calls the notebook makes, as functions of the values they   *)
(* read.                                                                   *)

\* Mutant of ZeroGrad: the gradients are dropped instead of zeroed.
ZeroGradToNone(g) == [p \in ParamNames |-> None]

\* Mutant of ZeroGrad: the gradients are not cleared.
ZeroGradSkipped(g) == g

\* optimizer.zero_grad(): every populated .grad is zeroed in place; a .grad
\* that is still None stays None.
ZeroGrad(g) == [p \in ParamNames |-> IF g[p] = None THEN None ELSE Num(0)]

\* model.forward(images) for one example value x.
ModelForward(ps, x) == Add(Mul(ps["w"], x), ps["b"])

\* Mutant of MeanSquaredLoss: the factor 1/2 of cell 0 is left out.
MeanSquaredLossWhole(out, y) == Mul(Sub(y, out), Sub(y, out))

\* The mean squared loss of cell 0, 1/(2n) * sum (y_i - yhat_i)^2, on a batch
\* whose n examples all are (x, y).
MeanSquaredLoss(out, y) == Half(Mul(Sub(y, out), Sub(y, out)))

\* d loss / d p for the loss above, at the parameter values ps.
LossGradient(p, ps, x, y) ==
    IF p = "w" THEN Mul(Sub(ModelForward(ps, x), y), x)
               ELSE Sub(ModelForward(ps, x), y)

\* Mutant of Backward: the gradient replaces what .grad held.
BackwardOverwrites(g, ps, x, y) == [p \in ParamNames |-> LossGradient(p, ps, x, y)]

\* loss.backward(): the gradient of the loss, taken at the values the graph
\* saved, is summed into every .grad (a .grad of None is set).
Backward(g, ps, x, y) ==
    [p \in ParamNames |-> IF g[p] = None THEN LossGradient(p, ps, x, y)
                                        ELSE Add(g[p], LossGradient(p, ps, x, y))]

\* Mutants of OptimizerStep: every parameter is updated from the gradient
\* of the weight.  Of RangeHasNext: one value too many.  Of LoaderBatches:
\* an incomplete last batch is never yielded although examples are left.
OptimizerStepCoupled(ps, g, alpha) ==
    [p \in ParamNames |-> IF g[p] = None THEN ps[p]
                          ELSE Sub(ps[p], Mul(Num(alpha), g["w"]))]
RangeOneMore(last, stop) == last + 1 <= stop
LoaderBatchesFullOnly(left) ==
    { [n |-> BatchSize, feat |-> f, flat |-> FALSE, x |-> x, y |-> y] :
        f \in IF left >= BatchSize THEN FeatureCounts ELSE {},
        x \in PixelValues, y \in LabelValues }

\* Mutant of SGDUpdate: the step is taken up the gradient.
SGDAscent(w, g, alpha) == Add(w, Mul(Num(alpha), g))

\* w' = w - alpha * dl/dw for one parameter.
SGDUpdate(w, g, alpha) == Sub(w, Mul(Num(alpha), g))

\* optimizer.step() of optim.SGD: every parameter with a .grad is updated
\* from its own gradient; a parameter whose .grad is None is skipped.
OptimizerStep(ps, g, alpha) ==
    [p \in ParamNames |-> IF g[p] = None THEN ps[p] ELSE SGDUpdate(ps[p], g[p], alpha)]

\* The batch a fresh or running iterator of the DataLoader yields when `left`
\* examples are left: batch_size examples, or what is left (drop_last=False).
\* The order is shuffled, so its content is any the dataset can hold.
LoaderBatches(left) ==
    { [n |-> Min(BatchSize, left), feat |-> f, flat |-> FALSE, x |-> x, y |-> y] :
        f \in FeatureCounts, x \in PixelValues, y \in LabelValues }

\* Number of batches one pass over the DataLoader yields.
BatchesPerEpoch == (N + BatchSize - 1) \div BatchSize

\* t.resize_(rows, cols): the tensor takes the shape (rows, cols) whatever
\* its number of elements was; nothing is checked.  With more elements than
\* before, the storage grows and the new elements are uninitialized memory:
\* any float, finite or not.  With fewer or as many, the elements are kept.
ResizeResults(t, rows, cols) ==
    { [n |-> rows, feat |-> cols, flat |-> TRUE, x |-> x] :
        x \in IF rows * cols > t.n * t.feat THEN {t.x, NaN} ELSE {t.x} }

---------------------------------------------------------------------------
(* Control: the statements of the cells, in the order they are written.    *)

Pc(c, s) == [cell |-> c, stmt |-> s]

\* Cell 22, the single demonstration step.
Cell22 == <<"next_iter", "resize", "zero_grad", "forward", "criterion", "backward", "step">>

\* Mutants of Cell26Body: optimizer.step() written before loss.backward();
\* optimizer.step() left out; the forward pass left out of the loop, so that
\* the loss of the demonstration step is differentiated again.
Cell26BodySwapped == <<"steps_inc", "resize", "zero_grad", "forward", "criterion", "step",
                       "backward", "accumulate", "report">>
Cell26BodyNoStep == <<"steps_inc", "resize", "zero_grad", "forward", "criterion",
                      "backward", "accumulate", "report">>
Cell26BodyNoForward == <<"steps_inc", "resize", "zero_grad", "criterion", "backward",
                         "step", "accumulate", "report">>

\* The body of the inner for loop of cell 26.
Cell26Body == <<"steps_inc", "resize", "zero_grad", "forward", "criterion", "backward",
                "step", "accumulate", "report">>

Body(c) == IF c = 22 THEN Cell22 ELSE Cell26Body

\* The statement executed after statement s of cell c.
After(c, s) ==
    LET i == CHOOSE j \in 1..Len(Body(c)) : Body(c)[j] = s
    IN  IF i < Len(Body(c)) THEN Pc(c, Body(c)[i + 1])
        ELSE IF c = 22 THEN Pc(25, "optimizer")
        ELSE Pc(26, "for_batch")

InStep == pc.cell \in {22, 26} /\ \E j \in 1..Len(Body(pc.cell)) : Body(pc.cell)[j] = pc.stmt

Phases == <<"ClearGradients", "Forward", "ComputeLoss", "Backward", "Update">>

Counted(ph) == IF pc.cell = 26 THEN [count EXCEPT ![ph] = @ + 1] ELSE count

---------------------------------------------------------------------------
(* Initial state: the notebook after cell 20.  The model is built with     *)
(* random weights, no gradient has been computed, the optimizer of cell 20 *)
(* has lr=0.01.                                                            *)

Init ==
    /\ pc = Pc(22, "next_iter")
    /\ params \in [ParamNames -> InitWeights]
    /\ grad = [p \in ParamNames |-> None]
    /\ lr = LrCell20
    /\ N \in DatasetSizes
    /\ remaining = 0
    /\ images = NoTensor
    /\ labels = NoLabels
    /\ output = NoOutput
    /\ logits = NoOutput
    /\ loss = None
    /\ epochs = 0 /\ print_every = 1 /\ steps = 0 /\ e = -1
    /\ running_loss = Num(0)
    /\ reports = <<>>
    /\ drawn = NoBatch
    /\ fwdParams = params
    /\ gradFrom = NoParams
    /\ phases = <<>>
    /\ lossLog = <<>>
    /\ startParams = params
    /\ count = [ph \in {Phases[i] : i \in 1..Len(Phases)} |-> 0]
    /\ ref = NoRef

---------------------------------------------------------------------------
(* Statements shared by cell 22 and the loop of cell 26.                   *)

\* images, labels = next(iter(trainloader))            (cells 22 and 28)
NextIter ==
    /\ pc.stmt = "next_iter"
    /\ \E b \in LoaderBatches(N) :
          /\ images' = [n |-> b.n, feat |-> b.feat, flat |-> b.flat, x |-> b.x]
          /\ labels' = [n |-> b.n, y |-> b.y]
          /\ drawn' = IF pc.cell = 22 THEN b ELSE drawn
    /\ phases' = IF pc.cell = 22 THEN <<>> ELSE phases
    /\ pc' = IF pc.cell = 22 THEN After(22, "next_iter") ELSE Pc(28, "view")
    /\ UNCHANGED <<params, grad, lr, N, remaining, output, logits, loss, loopVars,
                   fwdParams, gradFrom, lossLog, startParams, count, ref>>

\* Mutant of Resize: the loop resizes to the batch size as cell 22 does,
\* not to the length of the batch.
ResizeToBatchSize ==
    /\ pc.stmt = "resize"
    /\ images' \in ResizeResults(images, BatchSize, input_size)
    /\ pc' = After(pc.cell, "resize")
    /\ UNCHANGED <<params, grad, lr, N, remaining, labels, output, logits, loss,
                   loopVars, fwdParams, histVars>>

\* images.resize_(64, 784)                              (cell 22)
\* images.resize_(images.size()[0], 784)                (cell 26)
Resize ==
    /\ pc.stmt = "resize"
    /\ images' \in ResizeResults(images, IF pc.cell = 22 THEN BatchSize ELSE images.n,
                                  input_size)
    /\ pc' = After(pc.cell, "resize")
    /\ UNCHANGED <<params, grad, lr, N, remaining, labels, output, logits, loss,
                   loopVars, fwdParams, histVars>>

\* optimizer.zero_grad()
ZeroGradStmt ==
    /\ pc.stmt = "zero_grad"
    /\ grad' = ZeroGrad(grad)
    /\ gradFrom' = NoParams
    /\ phases' = Append(phases, "ClearGradients")
    /\ count' = Counted("ClearGradients")
    /\ pc' = After(pc.cell, "zero_grad")
    /\ UNCHANGED <<params, lr, N, remaining, images, labels, output, logits, loss,
                   loopVars, fwdParams, drawn, lossLog, startParams, ref>>

\* output = model.forward(images): fc1 is nn.Linear(input_size, ...), which
\* raises on an input that is not (n, input_size).
ForwardStmt ==
    /\ pc.stmt = "forward" /\ pc.cell # 28
    /\ IF images.flat /\ images.feat = input_size
         THEN /\ output' = [n |-> images.n, v |-> ModelForward(params, images.x)]
              /\ fwdParams' = params
              /\ phases' = Append(phases, "Forward")
              /\ count' = Counted("Forward")
              /\ pc' = After(pc.cell, "forward")
         ELSE /\ pc' = Pc(pc.cell, "raised")
              /\ UNCHANGED <<output, fwdParams, phases, count>>
    /\ UNCHANGED <<params, grad, lr, N, remaining, images, labels, logits, loss,
                   loopVars, drawn, gradFrom, lossLog, startParams, ref>>

\* loss = criterion(output, labels): raises when the batch sizes differ.
CriterionStmt ==
    /\ pc.stmt = "criterion"
    /\ IF output.n = labels.n
         THEN /\ loss' = MeanSquaredLoss(output.v, labels.y)
              /\ phases' = Append(phases, "ComputeLoss")
              /\ count' = Counted("ComputeLoss")
              /\ lossLog' = IF pc.cell = 26 THEN Append(lossLog, loss') ELSE lossLog
              /\ pc' = After(pc.cell, "criterion")
         ELSE /\ pc' = Pc(pc.cell, "raised")
              /\ UNCHANGED <<loss, phases, count, lossLog>>
    /\ UNCHANGED <<params, grad, lr, N, remaining, images, labels, output, logits,
                   loopVars, fwdParams, drawn, gradFrom, startParams, ref>>

\* loss.backward()
BackwardStmt ==
    /\ pc.stmt = "backward"
    /\ grad' = Backward(grad, fwdParams, images.x, labels.y)
    /\ gradFrom' = fwdParams
    /\ phases' = Append(phases, "Backward")
    /\ count' = Counted("Backward")
    /\ pc' = After(pc.cell, "backward")
    /\ UNCHANGED <<params, lr, N, remaining, images, labels, output, logits, loss,
                   loopVars, fwdParams, drawn, lossLog, startParams, ref>>

\* optimizer.step()
StepStmt ==
    /\ pc.stmt = "step"
    /\ params' = OptimizerStep(params, grad, lr)
    /\ phases' = Append(phases, "Update")
    /\ count' = Counted("Update")
    /\ pc' = After(pc.cell, "step")
    /\ UNCHANGED <<grad, lr, N, remaining, images, labels, output, logits, loss,
                   loopVars, fwdParams, drawn, gradFrom, lossLog, startParams, ref>>

---------------------------------------------------------------------------
(* Cell 25 and the loop of cell 26.                                        *)

\* optimizer = optim.SGD(model.parameters(), lr=0.003): a new optimizer over
\* the same parameters; their .grad is left as the demonstration step left it.
NewOptimizer ==
    /\ pc = Pc(25, "optimizer")
    /\ lr' = LrCell25
    /\ pc' = Pc(26, "init")
    /\ UNCHANGED <<params, grad, N, remaining, images, labels, output, logits, loss,
                   loopVars, fwdParams, histVars>>

\* epochs = 3; print_every = 40; steps = 0.  The two settings are drawn from
\* the bounded ranges instead of being 3 and 40.
LoopInit ==
    /\ pc = Pc(26, "init")
    /\ epochs' \in 0..MaxEpochs
    /\ print_every' \in 1..MaxPrintEvery
    /\ steps' = 0
    /\ startParams' = params
    /\ pc' = Pc(26, "for_epoch")
    /\ UNCHANGED <<params, grad, lr, N, remaining, images, labels, output, logits, loss,
                   e, running_loss, reports, fwdParams, drawn, gradFrom, phases,
                   lossLog, count, ref>>

\* The values range(epochs) yields after the value `last` (-1: none yet).
RangeHasNext(last, stop) == last + 1 < stop

\* Mutant of ForEpoch: the inner for statement goes on with the iterator of
\* the epoch before instead of a fresh one.
ForEpochNoRestart ==
    /\ pc = Pc(26, "for_epoch")
    /\ IF RangeHasNext(e, epochs)
         THEN /\ e' = e + 1
              /\ running_loss' = Num(0)
              /\ remaining' = IF e < 0 THEN N ELSE remaining
              /\ pc' = Pc(26, "for_batch")
         ELSE /\ pc' = Pc(28, "next_iter")
              /\ UNCHANGED <<e, running_loss, remaining>>
    /\ UNCHANGED <<params, grad, lr, N, images, labels, output, logits, loss,
                   epochs, print_every, steps, reports, fwdParams, histVars>>

\* Mutant of ForEpoch: the step counter is reset with the running loss.
ForEpochResetsSteps ==
    /\ pc = Pc(26, "for_epoch")
    /\ IF RangeHasNext(e, epochs)
         THEN /\ e' = e + 1
              /\ running_loss' = Num(0)
              /\ steps' = 0
              /\ remaining' = N
              /\ pc' = Pc(26, "for_batch")
         ELSE /\ pc' = Pc(28, "next_iter")
              /\ UNCHANGED <<e, running_loss, remaining, steps>>
    /\ UNCHANGED <<params, grad, lr, N, images, labels, output, logits, loss,
                   epochs, print_every, reports, fwdParams, histVars>>

\* for e in range(epochs): running_loss = 0, and the inner for statement
\* evaluates iter(trainloader), a fresh pass over the dataset.
ForEpoch ==
    /\ pc = Pc(26, "for_epoch")
    /\ IF RangeHasNext(e, epochs)
         THEN /\ e' = e + 1
              /\ running_loss' = Num(0)
              /\ remaining' = N
              /\ pc' = Pc(26, "for_batch")
         ELSE /\ pc' = Pc(28, "next_iter")
              /\ UNCHANGED <<e, running_loss, remaining>>
    /\ UNCHANGED <<params, grad, lr, N, images, labels, output, logits, loss,
                   epochs, print_every, steps, reports, fwdParams, histVars>>

\* for images, labels in iter(trainloader): the next batch, or the end of
\* the pass.
ForBatch ==
    /\ pc = Pc(26, "for_batch")
    /\ IF remaining > 0
         THEN /\ \E b \in LoaderBatches(remaining) :
                    /\ images' = [n |-> b.n, feat |-> b.feat, flat |-> b.flat, x |-> b.x]
                    /\ labels' = [n |-> b.n, y |-> b.y]
                    /\ drawn' = b
                    /\ remaining' = remaining - b.n
              /\ phases' = <<>>
              /\ pc' = Pc(26, Cell26Body[1])
         ELSE /\ pc' = Pc(26, "for_epoch")
              /\ UNCHANGED <<images, labels, drawn, remaining, phases>>
    /\ UNCHANGED <<params, grad, lr, N, output, logits, loss, loopVars,
                   fwdParams, gradFrom, lossLog, startParams, count, ref>>

\* steps += 1
StepsInc ==
    /\ pc = Pc(26, "steps_inc")
    /\ steps' = steps + 1
    /\ pc' = After(26, "steps_inc")
    /\ UNCHANGED <<params, grad, lr, N, remaining, images, labels, output, logits, loss,
                   epochs, print_every, e, running_loss, reports, fwdParams, histVars>>

\* running_loss += loss.item()
Accumulate ==
    /\ pc = Pc(26, "accumulate")
    /\ running_loss' = Add(running_loss, loss)
    /\ pc' = After(26, "accumulate")
    /\ UNCHANGED <<params, grad, lr, N, remaining, images, labels, output, logits, loss,
                   epochs, print_every, steps, e, reports, fwdParams, histVars>>

\* The line the loop prints: the epoch, and running_loss/print_every kept as
\* the fraction num/den; `at` is history, the step that printed it.
ReportLine == [epoch |-> e + 1, of |-> epochs, num |-> running_loss,
               den |-> print_every, at |-> steps]

\* Mutant of Report: a printed line is followed by one more optimizer.step().
ReportUpdates ==
    /\ pc = Pc(26, "report")
    /\ IF steps % print_every = 0
         THEN /\ reports' = Append(reports, ReportLine)
              /\ running_loss' = Num(0)
              /\ params' = OptimizerStep(params, grad, lr)
         ELSE UNCHANGED <<reports, running_loss, params>>
    /\ pc' = After(26, "report")
    /\ UNCHANGED <<grad, lr, N, remaining, images, labels, output, logits, loss,
                   epochs, print_every, steps, e, fwdParams, histVars>>

\* if steps % print_every == 0: print(...); running_loss = 0
Report ==
    /\ pc = Pc(26, "report")
    /\ IF steps % print_every = 0
         THEN /\ reports' = Append(reports, ReportLine)
              /\ running_loss' = Num(0)
         ELSE UNCHANGED <<reports, running_loss>>
    /\ pc' = After(26, "report")
    /\ UNCHANGED <<params, grad, lr, N, remaining, images, labels, output, logits, loss,
                   epochs, print_every, steps, e, fwdParams, histVars>>

---------------------------------------------------------------------------
(* Cell 28: one prediction with the trained network.                       *)

\* img = images[0].view(1, 784): view raises unless the example has exactly
\* 784 elements.  The example is kept in `images`.
View ==
    /\ pc = Pc(28, "view")
    /\ IF images.feat = input_size
         THEN /\ images' = [n |-> 1, feat |-> input_size, flat |-> TRUE, x |-> images.x]
              /\ pc' = Pc(28, "forward")
         ELSE /\ pc' = Pc(28, "raised")
              /\ UNCHANGED images
    /\ UNCHANGED <<params, grad, lr, N, remaining, labels, output, logits, loss,
                   loopVars, fwdParams, histVars>>

\* Mutant of ForwardNoGrad: the inference pass applies the gradients left by
\* the last step once more.
ForwardNoGradUpdates ==
    /\ pc = Pc(28, "forward")
    /\ logits' = [n |-> images.n, v |-> ModelForward(params, images.x)]
    /\ params' = OptimizerStep(params, grad, lr)
    /\ pc' = Pc(28, "end")
    /\ UNCHANGED <<grad, lr, N, remaining, images, labels, output, loss,
                   loopVars, fwdParams, histVars>>

\* with torch.no_grad(): logits = model.forward(img): no graph is recorded.
ForwardNoGrad ==
    /\ pc = Pc(28, "forward")
    /\ logits' = [n |-> images.n, v |-> ModelForward(params, images.x)]
    /\ pc' = Pc(28, "end")
    /\ UNCHANGED <<params, grad, lr, N, remaining, images, labels, output, loss,
                   loopVars, fwdParams, histVars>>

---------------------------------------------------------------------------

Next ==
    \/ NextIter
    \/ Resize
    \/ ZeroGradStmt
    \/ ForwardStmt
    \/ CriterionStmt
    \/ BackwardStmt
    \/ StepStmt
    \/ NewOptimizer
    \/ LoopInit
    \/ ForEpoch
    \/ ForBatch
    \/ StepsInc
    \/ Accumulate
    \/ Report
    \/ View
    \/ ForwardNoGrad

Spec == Init /\ [][Next]_vars

\* The notebook runs its cells to the end: no statement waits for anything.
FairSpec == Spec /\ WF_vars(Next)

---------------------------------------------------------------------------
(* The worked example.  Cells 0 and 1 define the loss and the update rule   *)
(* for a network trained by gradient descent; the example runs the loop of  *)
(* cell 26 on the smallest such network, y = w*x + b, over a dataset of one *)
(* example, one epoch per step, in exact decimals.  After loss.backward()   *)
(* the example may also differentiate the same graph once more, with or     *)
(* without clearing the gradients first, which ends the run.                *)

ScenarioSteps == 50     \* epochs of the worked example, one step each

ScenarioWeights == {Exact(Num(2000)), Exact(Num(0))}
ScenarioInputs  == {Exact(Num(1000))}
ScenarioTargets == {Exact(Num(0)), Exact(Num(1000))}
ScenarioRates   == {100, 500}

ScenarioInit ==
    /\ pc = Pc(26, "for_epoch")
    /\ params \in [ParamNames -> ScenarioWeights]
    /\ grad = [p \in ParamNames |-> None]
    /\ lr \in ScenarioRates
    /\ N = 1
    /\ remaining = 0
    /\ images = NoTensor
    /\ labels = NoLabels
    /\ output = NoOutput
    /\ logits = NoOutput
    /\ loss = None
    /\ epochs = ScenarioSteps /\ print_every = 1 /\ steps = 0 /\ e = -1
    /\ running_loss = Num(0)
    /\ reports = <<>>
    /\ \E x \in ScenarioInputs, y \in ScenarioTargets :
          drawn = [n |-> 1, feat |-> input_size, flat |-> FALSE, x |-> x, y |-> y]
    /\ fwdParams = params
    /\ gradFrom = NoParams
    /\ phases = <<>>
    /\ lossLog = <<>>
    /\ startParams = params
    /\ count = [ph \in {Phases[i] : i \in 1..Len(Phases)} |-> 0]
    /\ ref = NoRef

\* for images, labels in iter(trainloader), over the dataset of the example:
\* every pass yields its one example, the one in `drawn`, then ends.
ScenarioForBatch ==
    /\ pc = Pc(26, "for_batch")
    /\ IF remaining > 0
         THEN /\ images' = [n |-> drawn.n, feat |-> drawn.feat, flat |-> drawn.flat,
                            x |-> drawn.x]
              /\ labels' = [n |-> drawn.n, y |-> drawn.y]
              /\ remaining' = remaining - drawn.n
              /\ phases' = <<>>
              /\ pc' = Pc(26, Cell26Body[1])
         ELSE /\ pc' = Pc(26, "for_epoch")
              /\ UNCHANGED <<images, labels, remaining, phases>>
    /\ UNCHANGED <<params, grad, lr, N, output, logits, loss, loopVars,
                   fwdParams, drawn, gradFrom, lossLog, startParams, count, ref>>

\* loss.backward() once more on the graph of the same forward pass, the
\* gradients not cleared in between.
BackwardAgain ==
    /\ pc = Pc(26, "step")
    /\ grad' = Backward(grad, fwdParams, images.x, labels.y)
    /\ phases' = Append(phases, "Backward")
    /\ pc' = Pc(26, "backward_twice")
    /\ UNCHANGED <<params, lr, N, remaining, images, labels, output, logits, loss,
                   loopVars, fwdParams, drawn, gradFrom, lossLog, startParams, count, ref>>

\* optimizer.zero_grad(); loss.backward() once more on the graph of the same
\* forward pass.
ClearAndBackward ==
    /\ pc = Pc(26, "step")
    /\ grad' = Backward(ZeroGrad(grad), fwdParams, images.x, labels.y)
    /\ phases' = phases \o <<"ClearGradients", "Backward">>
    /\ pc' = Pc(26, "backward_cleared")
    /\ UNCHANGED <<params, lr, N, remaining, images, labels, output, logits, loss,
                   loopVars, fwdParams, drawn, gradFrom, lossLog, startParams, count, ref>>

ScenarioNext ==
    \/ ForEpoch
    \/ ScenarioForBatch
    \/ StepsInc
    \/ Resize
    \/ ZeroGradStmt
    \/ ForwardStmt
    \/ CriterionStmt
    \/ BackwardStmt
    \/ StepStmt
    \/ Accumulate
    \/ Report
    \/ BackwardAgain
    \/ ClearAndBackward

ScenarioSpec == ScenarioInit /\ [][ScenarioNext]_vars

---------------------------------------------------------------------------
(* The loop run twice.  Cell 26 is run from the state cell 25 leaves, and   *)
(* then once more from the same parameters and gradients with another       *)
(* print_every.  The first run records, per step, the tensors the step      *)
(* worked on and the Parameter Set it left; the second run is given the     *)
(* same tensors, step by step.                                              *)

\* The gradients cell 22 left, and a dataset of one full batch and one
\* incomplete batch.
PairGrads == {[p \in ParamNames |-> Num(1000)]}
PairSizes == {BatchSize + 1}

PairInit ==
    /\ pc = Pc(26, "init")
    /\ params \in [ParamNames -> InitWeights]
    /\ grad \in PairGrads
    /\ lr = LrCell25
    /\ N \in PairSizes
    /\ remaining = 0
    /\ images = NoTensor
    /\ labels = NoLabels
    /\ output = NoOutput
    /\ logits = NoOutput
    /\ loss = None
    /\ epochs = 0 /\ print_every = 1 /\ steps = 0 /\ e = -1
    /\ running_loss = Num(0)
    /\ reports = <<>>
    /\ drawn = NoBatch
    /\ fwdParams = params
    /\ gradFrom = NoParams
    /\ phases = <<>>
    /\ lossLog = <<>>
    /\ startParams = params
    /\ count = [ph \in {Phases[i] : i \in 1..Len(Phases)} |-> 0]
    /\ ref = [NoRef EXCEPT !.grad0 = grad]

\* What the step that just ended worked on and left.
StepRecord == [images |-> images, labels |-> labels, params |-> params]

\* for images, labels in iter(trainloader).  In the first run the batch is
\* any the loader can yield, and the step that ended before is recorded; in
\* the second run the tensors are those of the same step of the first run.
PairForBatch ==
    /\ pc = Pc(26, "for_batch")
    /\ ref' = IF ref.run = 1 /\ Len(ref.log) < steps
                THEN [ref EXCEPT !.log = Append(@, StepRecord)] ELSE ref
    /\ IF remaining > 0
         THEN /\ \E b \in IF ref.run = 1 THEN LoaderBatches(remaining)
                           ELSE { [n |-> r.images.n, feat |-> r.images.feat,
                                   flat |-> r.images.flat, x |-> r.images.x,
                                   y |-> r.labels.y] :
                                  r \in {ref.log[i] : i \in {steps + 1} \cap DOMAIN ref.log} } :
                    /\ images' = [n |-> b.n, feat |-> b.feat, flat |-> b.flat, x |-> b.x]
                    /\ labels' = [n |-> b.n, y |-> b.y]
                    /\ drawn' = b
                    /\ remaining' = remaining - b.n
              /\ phases' = <<>>
              /\ pc' = Pc(26, Cell26Body[1])
         ELSE /\ pc' = Pc(26, "for_epoch")
              /\ UNCHANGED <<images, labels, drawn, remaining, phases>>
    /\ UNCHANGED <<params, grad, lr, N, output, logits, loss, loopVars,
                   fwdParams, gradFrom, lossLog, startParams, count>>

\* The cell is run again with another print_every, from the parameters and
\* gradients the first run began with.
RunAgain ==
    /\ pc = Pc(28, "next_iter")
    /\ ref.run = 1
    /\ print_every' \in (1..MaxPrintEvery) \ {print_every}
    /\ ref' = [ref EXCEPT !.run = 2, !.print_every = print_every, !.reports = reports]
    /\ params' = startParams
    /\ grad' = ref.grad0
    /\ fwdParams' = startParams
    /\ steps' = 0 /\ e' = -1
    /\ running_loss' = Num(0)
    /\ reports' = <<>>
    /\ remaining' = 0
    /\ images' = NoTensor
    /\ labels' = NoLabels
    /\ output' = NoOutput
    /\ loss' = None
    /\ drawn' = NoBatch
    /\ gradFrom' = NoParams
    /\ phases' = <<>>
    /\ lossLog' = <<>>
    /\ count' = [ph \in DOMAIN count |-> 0]
    /\ pc' = Pc(26, "for_epoch")
    /\ UNCHANGED <<lr, N, logits, epochs, startParams>>

PairNext ==
    \/ LoopInit
    \/ ForEpoch
    \/ PairForBatch
    \/ StepsInc
    \/ Resize
    \/ ZeroGradStmt
    \/ ForwardStmt
    \/ CriterionStmt
    \/ BackwardStmt
    \/ StepStmt
    \/ Accumulate
    \/ Report
    \/ RunAgain

PairSpec == PairInit /\ [][PairNext]_vars

---------------------------------------------------------------------------
(* Vocabulary of the properties                                            *)

Range(q) == {q[i] : i \in 1..Len(q)}

RECURSIVE SumNum(_)
\* The sum of a sequence of finite floats.
SumNum(q) == IF q = <<>> THEN 0 ELSE q[1].v + SumNum(Tail(q))

\* The Training Driver is the loop of cell 26: Idle until its first
\* statement has run, Done once the outer for statement is exhausted.
DriverIdle == pc.cell \in {22, 25} \/ pc = Pc(26, "init")
DriverDone == pc.cell = 28

\* The loop stands between two steps: the step it started last has finished.
BetweenSteps == pc.cell = 26 /\ pc.stmt \in {"for_batch", "for_epoch"}

\* The statements of a step that come before its optimizer.step() returns.
BeforeUpdateDone == {"resize", "zero_grad", "forward", "criterion", "backward", "step"}

---------------------------------------------------------------------------
(* C1: in every training step (the demonstration step and every step of    *)
(* every epoch of the loop) the phases run in the order ClearGradients,    *)
(* Forward, ComputeLoss, Backward, Update: what a step has executed is     *)
(* always a prefix of that order, a finished step has executed all five,   *)
(* and between two steps every phase has run exactly once per step.        *)
C1_PhasesInOrder ==
    /\ \E k \in 0..5 : phases = SubSeq(Phases, 1, k)
    /\ (pc.cell = 25 \/ (BetweenSteps /\ steps > 0)) => phases = Phases
    /\ (BetweenSteps \/ DriverDone) => \A ph \in Range(Phases) : count[ph] = steps

C1_Witness ==
    pc = Pc(26, "for_batch") /\ e = 1 /\ steps = 3 /\ phases = Phases

(* C2: when optimizer.step() is about to run, every .grad is the gradient  *)
(* of this step's loss on this step's batch alone: nothing of an earlier   *)
(* step, the demonstration step included, is summed into it.               *)
C2_GradientOfThisBatchOnly ==
    (pc.cell \in {22, 26} /\ pc.stmt = "step") =>
        \A p \in ParamNames : grad[p] = LossGradient(p, params, images.x, labels.y)

C2_Witness ==
    /\ pc = Pc(26, "step") /\ steps = 1
    /\ IsNum(grad["w"]) /\ grad["w"].v # 0
    /\ IsNum(grad["b"]) /\ grad["b"].v # 0

(* C3: the loop runs optimizer.step() once per step: while a step is       *)
(* between its steps += 1 and the return of its optimizer.step() the loop  *)
(* has updated steps - 1 times, otherwise steps times; a Forward starts    *)
(* only when every earlier step has updated, and the Update comes after    *)
(* the Backward of its own step.                                           *)
C3_OneUpdatePerStep ==
    pc.cell \in {26, 28} =>
        /\ count["Update"] = IF pc.cell = 26 /\ pc.stmt \in BeforeUpdateDone
                                THEN steps - 1 ELSE steps
        /\ (pc.stmt = "forward" /\ pc.cell = 26) => count["Forward"] = count["Update"]
        /\ pc.stmt = "step" => count["Backward"] = count["Update"] + 1

C3_Witness ==
    pc = Pc(26, "forward") /\ steps = 2 /\ count["Update"] = 1

(* C4: when optimizer.step() is about to run, the Gradient Set was         *)
(* computed by a Backward for exactly the values the parameters have now:  *)
(* the parameters have not changed since the Forward it differentiates.    *)
C4_NoStaleGradient ==
    (pc.cell \in {22, 26} /\ pc.stmt = "step") =>
        gradFrom = params /\ fwdParams = params

C4_Witness ==
    pc = Pc(26, "step") /\ steps = 2 /\ params # startParams /\ gradFrom = params

\* w2 is w - alpha*g up to one unit of the last decimal of the arithmetic,
\* and non-finite when w or g is.
UpdatedFrom(w, g, alpha, w2) ==
    IF IsNum(w) /\ IsNum(g)
    THEN /\ IsNum(w2)
         /\ Scale * (w.v - w2.v) <= alpha * g.v
         /\ alpha * g.v < Scale * (w.v - w2.v) + Scale
    ELSE w2 = NaN

(* C5: one optimizer.step() with learning rate alpha takes every parameter *)
(* w whose gradient is g to w - alpha*g, up to the precision of the        *)
(* arithmetic (one unit of the last decimal), and to a non-finite value    *)
(* when w or g is non-finite; the new value of a parameter is a function   *)
(* of its own value and its own gradient only.                             *)
C5_UpdateRule ==
    [][(pc.stmt = "step" /\ pc' # pc) =>
          \A p \in ParamNames : UpdatedFrom(params[p], grad[p], lr, params'[p])]_vars

C5_Witness ==
    /\ pc = Pc(26, "accumulate")
    /\ \A p \in ParamNames : IsNum(params[p]) /\ IsNum(grad[p]) /\ params[p] # fwdParams[p]
    /\ grad["w"] # grad["b"]

(* C6: the loop terminates: every run of the notebook reaches the end of   *)
(* the outer for statement, and when it has, optimizer.step() has run      *)
(* exactly epochs times the number of batches of one pass over the loader. *)
C6_Terminates ==
    /\ <>DriverDone
    /\ [](DriverDone => /\ count["Update"] = epochs * BatchesPerEpoch
                        /\ steps = epochs * BatchesPerEpoch)

C6_Witness ==
    DriverDone /\ epochs = 2 /\ BatchesPerEpoch = 2 /\ count["Update"] = 4

(* C7: with epochs = 0 the loop does nothing: when it is done the          *)
(* parameters are those it started with, no phase of a step has run, the   *)
(* step counter is 0 and nothing was printed.                              *)
C7_ZeroEpochs ==
    (epochs = 0 /\ ~DriverIdle) =>
        /\ params = startParams
        /\ \A ph \in Range(Phases) : count[ph] = 0
        /\ steps = 0
        /\ lossLog = <<>>
        /\ reports = <<>>
        /\ pc.cell = 26 => pc = Pc(26, "for_epoch")

C7_Witness ==
    DriverDone /\ epochs = 0 /\ pc = Pc(28, "end") /\ params = startParams

(* C8: every printed value is the mean of the losses of exactly the steps  *)
(* run since the previous printed line (since the start of the run for the *)
(* first line), also when an epoch ends between two lines.  A printed      *)
(* value is num/den and the mean is sum/length, so they are equal when     *)
(* num * length = sum * den.                                               *)
C8_ReportIsMeanSinceLastReport ==
    \A i \in 1..Len(reports) :
        LET from   == IF i = 1 THEN 0 ELSE reports[i - 1].at
            window == SubSeq(lossLog, from + 1, reports[i].at)
        IN  (\A j \in 1..Len(window) : IsNum(window[j])) =>
                /\ IsNum(reports[i].num)
                /\ reports[i].num.v * Len(window) = SumNum(window) * reports[i].den

(* C9: a step of the loop whose batch does not have input_size elements   *)
(* per example fails before its Update: in a step that drew such a batch,  *)
(* optimizer.step() never runs.  Stated for finite pixels and parameters   *)
(* that were finite when the step began, so that it does not rest on C10.  *)
C9_ShapeMismatchIsFatal ==
    (/\ steps > 0
     /\ drawn.feat # input_size
     /\ IsNum(drawn.x)
     /\ \A p \in ParamNames : IsNum(fwdParams[p])) => "Update" \notin Range(phases)

(* C10: a step of the loop whose loss is not finite does not apply its     *)
(* Update.  Stated for a batch of the declared shape and parameters that   *)
(* were finite when the step began, so that it rests neither on C9 nor on  *)
(* an earlier non-finite step.                                             *)
C10_NonFiniteLossNotApplied ==
    (/\ steps > 0
     /\ drawn.feat = input_size
     /\ \A p \in ParamNames : IsNum(fwdParams[p])
     /\ "ComputeLoss" \in Range(phases)
     /\ ~IsNum(loss)) => "Update" \notin Range(phases)

---------------------------------------------------------------------------
\* The worked example as the text states it: w = 2, b = 0, x = 1, target 0,
\* learning rate 0.1.
InScenario ==
    /\ startParams = [p \in ParamNames |-> IF p = "w" THEN Exact(Num(2000)) ELSE Exact(Num(0))]
    /\ drawn.x = Exact(Num(1000))
    /\ drawn.y = Exact(Num(0))
    /\ lr = 100

\* The first step of the example has updated the parameters.
FirstStepDone == InScenario /\ steps = 1 /\ pc = Pc(26, "accumulate")

---------------------------------------------------------------------------
\* loss.backward() has run once since the gradients were cleared, and the
\* parameters have not been updated yet.
SingleRun == pc = Pc(26, "step") /\ phases = SubSeq(Phases, 1, 4)

---------------------------------------------------------------------------
---------------------------------------------------------------------------
\* loss.backward() has run at least once: the notebook is past line 384.
BackwardHasRun == ~(pc.cell = 22 /\ pc.stmt # "step")

\* Every parameter has a gradient entry; none has.
GradientsPresent == \A p \in DOMAIN params : grad[p] # None
GradientsAbsent  == \A p \in DOMAIN params : grad[p] = None

(* C14: the Gradient Set is indexed by the parameters; before the first     *)
(* Backward no parameter has a gradient entry (every .grad is None, also    *)
(* after the gradients are cleared), and from the first Backward on every   *)
(* parameter has one, also right after the gradients are cleared.           *)
C14_GradientShapeOnceComputed ==
    /\ DOMAIN grad = DOMAIN params
    /\ BackwardHasRun => GradientsPresent
    /\ ~BackwardHasRun => GradientsAbsent

\* The gradients were just cleared in the loop and every entry is there.
C14_Witness ==
    /\ pc = Pc(26, "forward")
    /\ phases = <<"ClearGradients">>
    /\ \A p \in ParamNames : grad[p] = Num(0)

\* As stated: one gradient entry per parameter in every state, including
\* before the first Backward.
C14_AsStated == DOMAIN grad = DOMAIN params /\ GradientsPresent

---------------------------------------------------------------------------
(* C15: the step counter is 0 when the notebook starts, changes only by     *)
(* one and only when a step starts, which every started step does, and is   *)
(* kept when an epoch begins; the running loss is 0 when an epoch begins.   *)
C15_StepCounter ==
    /\ steps = 0
    /\ [][/\ steps' # steps => steps' = steps + 1 /\ pc = Pc(26, "steps_inc")
          /\ pc = Pc(26, "steps_inc") => steps' = steps + 1
          /\ e' # e => e' = e + 1 /\ steps' = steps /\ running_loss' = Num(0)]_vars

\* The first step of the second epoch: the counter goes on, the running
\* loss of the first epoch is gone.
C15_Witness ==
    /\ pc = Pc(26, "resize")
    /\ e = 1
    /\ steps = BatchesPerEpoch + 1
    /\ Len(lossLog) = BatchesPerEpoch
    /\ lossLog[1] # Num(0)
    /\ running_loss = Num(0)

---------------------------------------------------------------------------
(* C16: a statement that changes a parameter is optimizer.step(), the       *)
(* Update phase; clearing the gradients, the forward pass, the loss, the    *)
(* backward pass, the running loss, the report, the loop statements and the *)
(* inference of cell 28 leave every parameter as it was.                    *)
C16_OnlyUpdateWrites ==
    [][/\ params' # params => pc.stmt = "step" /\ phases' = Append(phases, "Update")
       /\ pc.stmt \in {"zero_grad", "forward", "criterion", "backward", "accumulate",
                       "report", "view", "next_iter", "resize", "steps_inc",
                       "for_epoch", "for_batch", "init", "optimizer"}
             => params' = params]_vars

\* Training has changed the parameters and the inference of cell 28 has run.
C16_Witness ==
    /\ pc = Pc(28, "end")
    /\ count["Update"] >= 2
    /\ params # startParams
    /\ logits.v = ModelForward(params, images.x)

---------------------------------------------------------------------------
\* The Parameter Set the first run held after k steps.
RefParams(k) == IF k = 0 THEN startParams ELSE ref.log[k].params

\* Steps of the present run that have updated the parameters.
StepsUpdated ==
    IF pc.stmt \in {"resize", "zero_grad", "forward", "criterion", "backward", "step"}
    THEN steps - 1 ELSE steps

(* C17: the second run, which differs from the first in print_every only    *)
(* and is given the same tensors step by step, holds after every step the   *)
(* Parameter Set the first run held after that step, and ends after as many *)
(* steps with the same final Parameter Set.                                 *)
C17_ReportCadenceIrrelevant ==
    ref.run = 2 =>
        /\ print_every # ref.print_every
        /\ StepsUpdated <= Len(ref.log)
        /\ params = RefParams(StepsUpdated)
        /\ DriverDone => steps = Len(ref.log)

\* Both runs are over: two steps or more, the same final parameters, other
\* than the initial ones, and not the same number of printed lines.
C17_Witness ==
    /\ ref.run = 2
    /\ DriverDone
    /\ steps >= 2
    /\ params = ref.log[steps].params
    /\ params # startParams
    /\ Len(reports) # Len(ref.reports)

---------------------------------------------------------------------------
\* Batches the DataLoader has yielded in the current pass, and in all passes
\* of the loop so far.
YieldedInEpoch == (N - remaining + BatchSize - 1) \div BatchSize
Yielded == IF e < 0 THEN 0 ELSE e * BatchesPerEpoch + YieldedInEpoch

\* Every yielded batch has started one step, and at the end of the loop
\* every phase has run once per batch of every epoch.
StepPerBatch ==
    /\ steps + (IF pc = Pc(26, "steps_inc") THEN 1 ELSE 0) = Yielded
    /\ DriverDone => /\ steps = epochs * BatchesPerEpoch
                      /\ \A ph \in DOMAIN count : count[ph] = steps

(* C18: every batch the DataLoader yields starts exactly one step, the      *)
(* iterator is renewed exactly when an epoch begins, after the pass before  *)
(* is used up, and a batch is taken from it only by the inner for           *)
(* statement: E epochs over B batches end after E * B steps, one per epoch  *)
(* and batch.                                                               *)
C18_OneStepPerBatch ==
    /\ StepPerBatch
    /\ [][/\ StepPerBatch'
          /\ e' # e => e' = e + 1 /\ remaining = 0 /\ remaining' = N
          /\ remaining' # remaining =>
                \/ e' = e + 1
                \/ /\ pc = Pc(26, "for_batch") /\ pc' = Pc(26, "steps_inc")
                   /\ remaining' = remaining - drawn'.n
                   /\ drawn'.n >= 1]_vars

\* Two epochs over two batches each have ended after four steps.
C18_Witness ==
    /\ DriverDone
    /\ epochs = 2 /\ BatchesPerEpoch = 2
    /\ steps = 4
    /\ count["Update"] = 4

---------------------------------------------------------------------------
\* The statements of a step that are given the input or the target.
UsesBatch == InStep /\ pc.stmt \in {"forward", "criterion", "backward", "step"}

\* The last batch of a pass over a dataset that is not a multiple of the
\* batch size.
PartialBatch == pc.cell = 26 /\ remaining = 0 /\ N % BatchSize # 0

(* C19: in every step the flattened input given to Forward and the target   *)
(* given to ComputeLoss have the same length; that length is the batch size *)
(* for every batch but the last one of a pass over a dataset whose size is  *)
(* not a multiple of the batch size, which holds the examples left over.    *)
C19_InputAndTargetLengths ==
    UsesBatch =>
        /\ images.flat
        /\ images.n = labels.n
        /\ pc.stmt = "criterion" => output.n = labels.n
        /\ images.n = IF PartialBatch THEN N % BatchSize ELSE BatchSize

\* The loss is about to be computed on the last batch of a pass, which is
\* shorter than the batch size.
C19_Witness ==
    /\ pc = Pc(26, "criterion")
    /\ PartialBatch
    /\ output.n = labels.n
    /\ labels.n < BatchSize

\* As stated: the length is the batch size for every batch, the last one
\* included.
C19_AsStated == UsesBatch => images.n = labels.n /\ images.n = BatchSize

---------------------------------------------------------------------------
(* C20: from the moment a batch is drawn to the end of its step, the input  *)
(* and the target are what the DataLoader yielded, in shape and in content. *)
C20_BatchImmutable ==
    InStep /\ drawn # NoBatch =>
        /\ images = [n |-> drawn.n, feat |-> drawn.feat, flat |-> drawn.flat, x |-> drawn.x]
        /\ labels = [n |-> drawn.n, y |-> drawn.y]

---------------------------------------------------------------------------
\* The sum of the running losses the printed lines were computed from.
ReportedLosses == SumNum([i \in 1..Len(reports) |-> reports[i].num])

\* The loop is between two steps or has ended: every loss computed so far
\* has been added to the running loss.
LossesAccumulated == BetweenSteps \/ DriverDone

(* C21: the lines are printed exactly at the steps whose counter is a       *)
(* multiple of print_every, and no loss is lost or counted twice: the       *)
(* losses of all steps so far are those the printed lines were computed     *)
(* from plus those still held in the running loss, also after an epoch has  *)
(* begun.  Stated for finite losses, so that it does not rest on C10.       *)
C21_EveryLossInOneReport ==
    (\A j \in 1..Len(lossLog) : IsNum(lossLog[j])) =>
        /\ \A i \in 1..Len(reports) : reports[i].at = i * print_every
        /\ LossesAccumulated =>
              /\ Len(reports) = steps \div print_every
              /\ ReportedLosses + running_loss.v = SumNum(lossLog)

============================================================================
